---- MODULE Spec2Model ----
(***************************************************************************)
(* four-digit-bot: the code store (db.py, CodeRepository) and the thin     *)
(* service over it (services.py, CodeService), as a state machine.         *)
(*                                                                         *)
(* One aiosqlite connection is shared by every coroutine.  aiosqlite runs  *)
(* each awaited call (execute, executemany, fetchall, commit) as one       *)
(* function on the connection's single worker thread, in submission order; *)
(* a coroutine is suspended at every such await and other coroutines run   *)
(* in between.  A step of the model is therefore one awaited call of one   *)
(* coroutine, executed on the worker thread.  Cursor calls that read no    *)
(* shared state (fetchone after an UPDATE ... RETURNING or a COUNT,        *)
(* cursor.close) are folded into the execute that produced their row.      *)
(* executemany is kept as a run of single UPDATEs on the worker thread,    *)
(* during which no other call of the connection executes.                  *)
(***************************************************************************)
EXTENDS Integers, Sequences, FiniteSets, TLC

\* ------------------------------------------------------------------ bounds

\* Size of the pool: 10000 in the source (db.py:41,52), scaled down.
NumCodes == 2
\* Number of coroutines (concurrent handler invocations) sharing the store.
NumTasks == 2
\* Longest input sequence handed to import_used.
MaxLen == 3
\* Number of processes that run connect on the same medium.
NumBoots == 2
\* Largest pool size, number of winning codes and number of attempts handed
\* to cumulative_success_prob.
MaxTotal == 4
\* Number of chat users that may write to the bot.
NumUsers == 1
\* Number of updates the bot serves in one run.
MaxUpdates == 3

Codes == 0 .. (NumCodes - 1)
Tasks == 1 .. NumTasks
Boots == 1 .. NumBoots
Users == 1 .. NumUsers
\* Values an import file may hold: one below the range, one above it.
InputVals == (0 - 1) .. NumCodes

RECURSIVE SeqsUpTo(_)
SeqsUpTo(n) ==
    IF n = 0 THEN {<<>>}
    ELSE SeqsUpTo(n - 1) \cup [1 .. n -> InputVals]
Inputs == SeqsUpTo(MaxLen)

\* ------------------------------------------------------------------- state

VARIABLES
    table,      \* the codes table as the connection sees it: code -> used
    durable,    \* the codes table as of the last commit
    inTx,       \* the connection is inside an open transaction
    locked,     \* CodeRepository._lock is held
    pc,         \* each coroutine's position
    arg,        \* import_used: unique_codes still to be bound by executemany
    row,        \* the cursor's fetched row, or <<rowcount>> of a DML cursor
    result,     \* what the finished call returned or raised
    returned,   \* history: how often take returned each code since the last clear
    script,     \* scenario driver: the calls each coroutine still has to make
    input,      \* scenario driver: the sequence handed to the running import
    log,        \* scenario driver: the finished calls, in order of return
    start,      \* scenario driver: the codes used when the scenario began
    scenario,   \* scenario driver: which scenario runs ("" for none)
    boot,       \* startup: each connecting process's position in connect
    writer,     \* startup: the process whose connection holds the write lock, or 0
    found,      \* startup: the codes table as it was on the medium at first
    settings,   \* handle_code: settings.total_codes and settings.winning_codes
    attempts,   \* handle_code: total_codes minus the count remaining
    prob,       \* handle_code: the probability worked out for the reply
    allowed,    \* bot: AccessMiddleware.allowed_ids
    event,      \* bot: the update each coroutine is serving
    prompt,     \* bot: <<the document sent with the open "clear the list?" prompt>>
    updates,    \* bot: how many updates the dispatcher has passed on
    from_user   \* bot: the sender of the update passed on last (0 for None)

driver == <<script, input, log, start, scenario>>
\* What lies around the opened repository.
bot == <<allowed, event, prompt, updates, from_user>>
shell == <<boot, writer, found, settings, attempts, prob, allowed, event, prompt,
           updates, from_user>>
vars == <<table, durable, inTx, locked, pc, arg, row, result, returned,
          script, input, log, start, scenario, boot, writer, found,
          settings, attempts, prob, allowed, event, prompt, updates, from_user>>

NoResult == [op |-> "", status |-> "", val |-> <<>>]
Ok(o, v) == [op |-> o, status |-> "ok", val |-> v]
Raised(o) == [op |-> o, status |-> "error", val |-> <<>>]
Cancelled(o) == [op |-> o, status |-> "cancelled", val |-> <<>>]

\* --------------------------------------------------------------- queries

\* SELECT ... WHERE used=0 / used=1, as sets of keys.
Unused(t) == {c \in DOMAIN t : t[c] = 0}
Used(t) == {c \in DOMAIN t : t[c] = 1}

\* Faulty variant: the count without WHERE used=0.
CountAll(t) == Cardinality(DOMAIN t)

\* SELECT COUNT AS c FROM codes WHERE used=0
CountUnused(t) == Cardinality(Unused(t))

Min(S) == CHOOSE x \in S : \A y \in S : x <= y

\* ORDER BY code: the keys of S in ascending order.
RECURSIVE OrderByCode(_)
OrderByCode(S) ==
    IF S = {} THEN <<>>
    ELSE <<Min(S)>> \o OrderByCode(S \ {Min(S)})

\* SELECT code FROM codes WHERE used=1 ORDER BY code, stepped to the end.
SelectUsed(t) == OrderByCode(Used(t))

\* Faulty variant: the range test written 0 < int(c), code 0000 is dropped.
UniqueCodesNoZero(X) == {X[i] : i \in {j \in 1 .. Len(X) : 0 < X[j] /\ X[j] <= NumCodes - 1}}

\* unique_codes = {int(c) for c in codes if 0 <= int(c) <= 9999}
UniqueCodes(X) == {X[i] : i \in {j \in 1 .. Len(X) : 0 <= X[j] /\ X[j] <= NumCodes - 1}}

\* The table after _seed_codes on an empty medium: every code, unused.
Seeded == [c \in Codes |-> 0]

\* No executemany is running on the connection's worker thread.
DbFree == \A q \in Tasks : pc[q] # "i_run"

\* The caller of coroutine p keeps the call's result to look at: it runs a
\* scripted call.  Otherwise the result is consumed as the call returns.
Observed(p) == script[p] # <<>>

\* The call of p returns r (or raises, r says which).
Finish(p, r) ==
    /\ pc' = [pc EXCEPT ![p] = IF Observed(p) THEN "done" ELSE "idle"]
    /\ result' = [result EXCEPT ![p] = IF Observed(p) THEN r ELSE NoResult]

\* Faulty variant: the critical path entered without the lock being asked for.
EnterUnguarded(p, wait, in) ==
    pc' = [pc EXCEPT ![p] = in] /\ locked' = TRUE

\* async with self._lock, entered from the call: asyncio.Lock.acquire does not
\* suspend when the lock is free; otherwise the coroutine waits at pc = wait.
\* (asyncio serves waiters first come, first served; here any order may occur.)
Enter(p, wait, in) ==
    IF locked
    THEN pc' = [pc EXCEPT ![p] = wait] /\ UNCHANGED locked
    ELSE pc' = [pc EXCEPT ![p] = in] /\ locked' = TRUE

\* Faulty variant: a waiter proceeds whether or not the lock is free.
AcquireUnguarded(p, wait, in) ==
    /\ pc[p] = wait
    /\ locked' = TRUE
    /\ pc' = [pc EXCEPT ![p] = in]

\* A waiter is woken once the lock is free.
Acquire(p, wait, in) ==
    /\ pc[p] = wait
    /\ ~locked
    /\ locked' = TRUE
    /\ pc' = [pc EXCEPT ![p] = in]

\* ---------------------------------------------------------- take_random_code

CallTake(p) ==
    /\ pc[p] = "idle"
    /\ Enter(p, "t_lock", "t_begin")
    /\ UNCHANGED <<table, durable, inTx, arg, row, result, returned>>

take_lock(p) ==
    /\ Acquire(p, "t_lock", "t_begin")
    /\ UNCHANGED <<table, durable, inTx, arg, row, result, returned, driver, shell>>

\* BEGIN IMMEDIATE; inside an open transaction sqlite raises OperationalError,
\* which leaves the async with and so releases the lock.
take_begin(p) ==
    /\ pc[p] = "t_begin"
    /\ DbFree
    /\ IF inTx
       THEN /\ locked' = FALSE
            /\ Finish(p, Raised("take"))
            /\ UNCHANGED inTx
       ELSE /\ inTx' = TRUE
            /\ pc' = [pc EXCEPT ![p] = "t_update"]
            /\ UNCHANGED <<locked, result>>
    /\ UNCHANGED <<table, durable, arg, row, returned, driver, shell>>

\* Faulty variant: the subquery without WHERE used = 0, any row is picked.
take_update_any(p) ==
    /\ pc[p] = "t_update"
    /\ DbFree
    /\ \E c \in DOMAIN table :
        /\ table' = [table EXCEPT ![c] = 1]
        /\ row' = [row EXCEPT ![p] = <<c>>]
    /\ pc' = [pc EXCEPT ![p] = "t_commit"]
    /\ UNCHANGED <<durable, inTx, locked, arg, result, returned, driver, shell>>

\* Faulty variant: the UPDATE without the LIMIT 1 subquery, every unused row is set.
take_update_all(p) ==
    /\ pc[p] = "t_update"
    /\ DbFree
    /\ IF Unused(table) = {}
       THEN /\ row' = [row EXCEPT ![p] = <<>>]
            /\ UNCHANGED table
       ELSE /\ table' = [c \in DOMAIN table |-> 1]
            /\ row' = [row EXCEPT ![p] = <<Min(Unused(table))>>]
    /\ pc' = [pc EXCEPT ![p] = "t_commit"]
    /\ UNCHANGED <<durable, inTx, locked, arg, result, returned, driver, shell>>

\* UPDATE codes SET used = 1 WHERE code = (SELECT code FROM codes WHERE used = 0
\* ORDER BY RANDOM() LIMIT 1) RETURNING code; then fetchone and cursor.close.
take_update(p) ==
    /\ pc[p] = "t_update"
    /\ DbFree
    /\ IF Unused(table) = {}
       THEN /\ row' = [row EXCEPT ![p] = <<>>]
            /\ UNCHANGED table
       ELSE \E c \in Unused(table) :
                /\ table' = [table EXCEPT ![c] = 1]
                /\ row' = [row EXCEPT ![p] = <<c>>]
    /\ pc' = [pc EXCEPT ![p] = "t_commit"]
    /\ UNCHANGED <<durable, inTx, locked, arg, result, returned, driver, shell>>

\* commit, then return None or int(row["code"]); the lock is released on exit.
take_commit(p) ==
    /\ pc[p] = "t_commit"
    /\ DbFree
    /\ durable' = table
    /\ inTx' = FALSE
    /\ locked' = FALSE
    /\ Finish(p, Ok("take", row[p]))
    /\ returned' = IF row[p] = <<>> THEN returned
                   ELSE [returned EXCEPT ![row[p][1]] = @ + 1]
    /\ row' = [row EXCEPT ![p] = <<>>]
    /\ UNCHANGED <<table, arg, driver, shell>>

take_random_code(p) ==
    take_lock(p) \/ take_begin(p) \/ take_update(p) \/ take_commit(p)

\* --------------------------------------------------------------- import_used

\* The filter runs before the first await; an empty set returns 0 at once.
CallImport(p, X) ==
    /\ pc[p] = "idle"
    /\ IF UniqueCodes(X) = {}
       THEN /\ Finish(p, Ok("import", <<0>>))
            /\ UNCHANGED <<arg, locked>>
       ELSE /\ Enter(p, "i_lock", "i_begin")
            /\ arg' = [arg EXCEPT ![p] = UniqueCodes(X)]
            /\ UNCHANGED result
    /\ UNCHANGED <<table, durable, inTx, row, returned>>

import_lock(p) ==
    /\ Acquire(p, "i_lock", "i_begin")
    /\ UNCHANGED <<table, durable, inTx, arg, row, result, returned, driver, shell>>

import_begin(p) ==
    /\ pc[p] = "i_begin"
    /\ DbFree
    /\ IF inTx
       THEN /\ locked' = FALSE
            /\ Finish(p, Raised("import"))
            /\ arg' = [arg EXCEPT ![p] = {}]
            /\ UNCHANGED inTx
       ELSE /\ inTx' = TRUE
            /\ pc' = [pc EXCEPT ![p] = "i_exec"]
            /\ UNCHANGED <<locked, result, arg>>
    /\ UNCHANGED <<table, durable, row, returned, driver, shell>>

\* One UPDATE codes SET used = 1 WHERE code = ? AND used = 0 for code c; the
\* cursor's rowcount sums the rows changed.
\* Faulty variant: the UPDATE without AND used = 0, a used row counts as changed.
ChangedAny(t, c) == IF c \in DOMAIN t THEN 1 ELSE 0

MarkOne(t, c) == IF c \in DOMAIN t /\ t[c] = 0 THEN [t EXCEPT ![c] = 1] ELSE t
Changed(t, c) == IF c \in DOMAIN t /\ t[c] = 0 THEN 1 ELSE 0

\* executemany over unique_codes: the worker thread takes the codes one by one,
\* in the set's iteration order; pc = "i_run" while codes are left.
import_executemany(p) ==
    /\ pc[p] \in {"i_exec", "i_run"}
    /\ pc[p] = "i_exec" => DbFree
    /\ \E c \in arg[p] :
        /\ table' = MarkOne(table, c)
        /\ row' = [row EXCEPT ![p] =
                     <<(IF pc[p] = "i_exec" THEN 0 ELSE row[p][1]) + Changed(table, c)>>]
        /\ arg' = [arg EXCEPT ![p] = @ \ {c}]
        /\ pc' = [pc EXCEPT ![p] = IF arg[p] = {c} THEN "i_commit" ELSE "i_run"]
    /\ UNCHANGED <<durable, inTx, locked, result, returned, driver, shell>>

\* commit, then return cursor.rowcount.
import_commit(p) ==
    /\ pc[p] = "i_commit"
    /\ DbFree
    /\ durable' = table
    /\ inTx' = FALSE
    /\ locked' = FALSE
    /\ Finish(p, Ok("import", row[p]))
    /\ row' = [row EXCEPT ![p] = <<>>]
    /\ UNCHANGED <<table, arg, returned, driver, shell>>

import_used(p) ==
    import_lock(p) \/ import_begin(p) \/ import_executemany(p) \/ import_commit(p)

\* ---------------------------------------------------------------- clear_used

CallClear(p) ==
    /\ pc[p] = "idle"
    /\ Enter(p, "c_lock", "c_update")
    /\ UNCHANGED <<table, durable, inTx, arg, row, result, returned>>

clear_lock(p) ==
    /\ Acquire(p, "c_lock", "c_update")
    /\ UNCHANGED <<table, durable, inTx, arg, row, result, returned, driver, shell>>

\* Faulty variant: the used rows deleted instead of reset.
clear_update_delete(p) ==
    /\ pc[p] = "c_update"
    /\ DbFree
    /\ inTx' = TRUE
    /\ row' = [row EXCEPT ![p] = <<Cardinality(Used(table))>>]
    /\ table' = [c \in Unused(table) |-> 0]
    /\ returned' = [c \in Codes |-> 0]
    /\ pc' = [pc EXCEPT ![p] = "c_commit"]
    /\ UNCHANGED <<durable, locked, arg, result, driver, shell>>

\* Faulty variant: the UPDATE without WHERE used = 1, every row counts as changed.
clear_update_all(p) ==
    /\ pc[p] = "c_update"
    /\ DbFree
    /\ inTx' = TRUE
    /\ row' = [row EXCEPT ![p] = <<Cardinality(DOMAIN table)>>]
    /\ table' = [c \in DOMAIN table |-> 0]
    /\ returned' = [c \in Codes |-> 0]
    /\ pc' = [pc EXCEPT ![p] = "c_commit"]
    /\ UNCHANGED <<durable, locked, arg, result, driver, shell>>

\* UPDATE codes SET used = 0 WHERE used = 1; there is no BEGIN: sqlite3 opens
\* the transaction itself before a DML statement when none is open.
clear_update(p) ==
    /\ pc[p] = "c_update"
    /\ DbFree
    /\ inTx' = TRUE
    /\ row' = [row EXCEPT ![p] = <<Cardinality(Used(table))>>]
    /\ table' = [c \in DOMAIN table |-> 0]
    /\ returned' = [c \in Codes |-> 0]
    /\ pc' = [pc EXCEPT ![p] = "c_commit"]
    /\ UNCHANGED <<durable, locked, arg, result, driver, shell>>

\* commit, then return cursor.rowcount.
clear_commit(p) ==
    /\ pc[p] = "c_commit"
    /\ DbFree
    /\ durable' = table
    /\ inTx' = FALSE
    /\ locked' = FALSE
    /\ Finish(p, Ok("clear", row[p]))
    /\ row' = [row EXCEPT ![p] = <<>>]
    /\ UNCHANGED <<table, arg, returned, driver, shell>>

clear_used(p) ==
    clear_lock(p) \/ clear_update(p) \/ clear_commit(p)

\* ------------------------------------------------------------------- readers

CallRemaining(p) ==
    /\ pc[p] = "idle"
    /\ pc' = [pc EXCEPT ![p] = "r_exec"]
    /\ UNCHANGED <<table, durable, inTx, locked, arg, row, result, returned>>

\* SELECT COUNT ... WHERE used=0: the count is taken when execute runs.
get_unused_count(p) ==
    /\ pc[p] = "r_exec"
    /\ DbFree
    /\ Finish(p, Ok("remaining", <<CountUnused(table)>>))
    /\ UNCHANGED <<table, durable, inTx, locked, arg, row, returned, driver, shell>>

CallExport(p) ==
    /\ pc[p] = "idle"
    /\ pc' = [pc EXCEPT ![p] = "e_exec"]
    /\ UNCHANGED <<table, durable, inTx, locked, arg, row, result, returned>>

\* execute steps the SELECT to its first row; the scan stays open on it.
export_execute(p) ==
    /\ pc[p] = "e_exec"
    /\ DbFree
    /\ row' = [row EXCEPT ![p] = IF Used(table) = {} THEN <<>> ELSE <<Min(Used(table))>>]
    /\ pc' = [pc EXCEPT ![p] = "e_fetchall"]
    /\ UNCHANGED <<table, durable, inTx, locked, arg, result, returned, driver, shell>>

\* Faulty variant: the row execute stepped to is dropped from the list.
FetchallRest(t, r) ==
    IF r = <<>> THEN <<>>
    ELSE OrderByCode({c \in Used(t) : c > r[1]})

\* fetchall steps the scan on from that row over the table as it is by then.
Fetchall(t, r) ==
    IF r = <<>> THEN <<>>
    ELSE r \o OrderByCode({c \in Used(t) : c > r[1]})

export_fetchall(p) ==
    /\ pc[p] = "e_fetchall"
    /\ DbFree
    /\ Finish(p, Ok("export", Fetchall(table, row[p])))
    /\ row' = [row EXCEPT ![p] = <<>>]
    /\ UNCHANGED <<table, durable, inTx, locked, arg, returned, driver, shell>>

export_used(p) ==
    export_execute(p) \/ export_fetchall(p)

\* ------------------------------------------------------------ specification

\* No call in progress on an opened repository.
Quiet ==
    /\ inTx = FALSE
    /\ locked = FALSE
    /\ pc = [p \in Tasks |-> "idle"]
    /\ arg = [p \in Tasks |-> {}]
    /\ row = [p \in Tasks |-> <<>>]
    /\ result = [p \in Tasks |-> NoResult]
    /\ returned = [c \in Codes |-> 0]

\* A probability as the fraction num / den.  The source computes in floats;
\* the model keeps the exact value.
Zero == [num |-> 0, den |-> 1]
One == [num |-> 1, den |-> 1]

\* Default settings at the model's scale, and no reply worked out yet.
NoEstimate ==
    /\ settings = [total_codes |-> NumCodes, winning_codes |-> 1]
    /\ attempts = 0
    /\ prob = Zero

\* No update is being served, no prompt is open.
NoEvent == [handler |-> "", calls |-> 0, document |-> <<>>]
NoPrompt == <<>>
NoBot ==
    /\ allowed = {}
    /\ event = [p \in Tasks |-> NoEvent]
    /\ prompt = NoPrompt
    /\ updates = 0
    /\ from_user = 0

\* Every connect has returned.
Booted ==
    /\ boot = [b \in Boots |-> [pc |-> "up", missing |-> {}]]
    /\ writer = 0

\* The store after create_repository on a fresh medium.
Init ==
    /\ table = Seeded
    /\ durable = Seeded
    /\ found = Seeded
    /\ Booted
    /\ NoEstimate
    /\ NoBot
    /\ Quiet
    /\ script = [p \in Tasks |-> <<>>]
    /\ input = [p \in Tasks |-> <<>>]
    /\ log = <<>>
    /\ start = {}
    /\ scenario = ""

\* Import files as export writes them: distinct codes in ascending order,
\* here with values outside the range among them.
ExportLike == {OrderByCode(S) : S \in SUBSET InputVals}

\* A handler invocation starts any service call.
Call(p) ==
    \/ CallTake(p) /\ UNCHANGED <<driver, shell>>
    \/ \E X \in ExportLike : CallImport(p, X) /\ UNCHANGED <<driver, shell>>
    \/ CallClear(p) /\ UNCHANGED <<driver, shell>>
    \/ CallRemaining(p) /\ UNCHANGED <<driver, shell>>
    \/ CallExport(p) /\ UNCHANGED <<driver, shell>>

Step(p) ==
    \/ take_random_code(p)
    \/ import_used(p)
    \/ clear_used(p)
    \/ get_unused_count(p)
    \/ export_used(p)

Next == \E p \in Tasks : Call(p) \/ Step(p)

Spec == Init /\ [][Next]_vars

\* ------------------------------------------------------------ cancellation

\* The task running take_random_code or import_used is cancelled while it is
\* suspended at an await: CancelledError is raised there, `async with` releases
\* the lock, and nothing rolls the transaction back.  aiosqlite still runs a
\* call that was already handed to the worker thread.
Abandon(p, o) ==
    /\ Finish(p, Cancelled(o))
    /\ row' = [row EXCEPT ![p] = <<>>]
    /\ arg' = [arg EXCEPT ![p] = {}]

\* Cancelled while waiting for the lock: the waiter just leaves.
CancelWaiting(p) ==
    /\ pc[p] \in {"t_lock", "i_lock"}
    /\ Abandon(p, IF pc[p] = "t_lock" THEN "take" ELSE "import")
    /\ UNCHANGED <<table, durable, inTx, locked, returned, driver, shell>>

\* Cancelled after BEGIN IMMEDIATE has run and before commit is handed over.
CancelInTransaction(p) ==
    /\ pc[p] \in {"t_update", "t_commit", "i_exec", "i_commit"}
    /\ locked' = FALSE
    /\ Abandon(p, IF pc[p] \in {"t_update", "t_commit"} THEN "take" ELSE "import")
    /\ UNCHANGED <<table, durable, inTx, returned, driver, shell>>

\* Cancelled while awaiting commit: the commit runs, the result is lost.
CancelAtCommit(p) ==
    /\ pc[p] \in {"t_commit", "i_commit"}
    /\ DbFree
    /\ durable' = table
    /\ inTx' = FALSE
    /\ locked' = FALSE
    /\ Abandon(p, IF pc[p] = "t_commit" THEN "take" ELSE "import")
    /\ UNCHANGED <<table, returned, driver, shell>>

Cancel(p) == CancelWaiting(p) \/ CancelInTransaction(p) \/ CancelAtCommit(p)

NextCancel == \E p \in Tasks : Call(p) \/ Step(p) \/ Cancel(p)

SpecCancel == Init /\ [][NextCancel]_vars

\* ------------------------------------------------------------------ startup

\* connect and _seed_codes, run by NumBoots processes that open the same
\* medium, each on a connection of its own.  A connection reads the committed
\* table (durable); the one inside BEGIN IMMEDIATE holds the medium's write
\* lock and works on table.  The PRAGMAs and CREATE TABLE IF NOT EXISTS are
\* folded into the first step: a medium without the table is the empty table.

\* SELECT COUNT AS c FROM codes
CountRows(t) == Cardinality(DOMAIN t)

\* Faulty variant: range(1, 10000), code 0000 is never inserted.
MissingFromOne(existing) == (Codes \ {0}) \ existing

\* missing = [i for i in range(10000) if i not in existing]
Missing(existing) == Codes \ existing

\* INSERT OR IGNORE INTO codes(code, used) VALUES (?, 0) for every code of S:
\* a key that is present keeps its row (code is the PRIMARY KEY).
InsertOrIgnore(t, S) ==
    [c \in DOMAIN t \cup S |-> IF c \in DOMAIN t THEN t[c] ELSE 0]

At(b, to) == boot' = [boot EXCEPT ![b].pc = to]

\* Faulty variant: every start seeds anew with INSERT OR REPLACE, flags are lost.
seed_count_reset(b) ==
    /\ boot[b].pc = "s_count"
    /\ At(b, "up")
    /\ table' = Seeded
    /\ durable' = Seeded
    /\ UNCHANGED <<writer, inTx, locked, pc, arg, row, result, returned, driver, found>>
    /\ UNCHANGED <<settings, attempts, prob, bot>>

\* The COUNT and the early return when it is 10000 (here NumCodes).
seed_count(b) ==
    /\ boot[b].pc = "s_count"
    /\ At(b, IF CountRows(durable) = NumCodes THEN "up" ELSE "s_begin")
    /\ UNCHANGED <<table, durable, writer>>
    /\ UNCHANGED <<inTx, locked, pc, arg, row, result, returned, driver, found>>
    /\ UNCHANGED <<settings, attempts, prob, bot>>

\* BEGIN IMMEDIATE takes the write lock; while another connection holds it
\* sqlite waits, and raises "database is locked" once the timeout is over.
seed_begin(b) ==
    /\ boot[b].pc = "s_begin"
    /\ IF writer = 0
       THEN writer' = b /\ At(b, "s_select")
       ELSE At(b, "failed") /\ UNCHANGED writer
    /\ UNCHANGED <<table, durable>>
    /\ UNCHANGED <<inTx, locked, pc, arg, row, result, returned, driver, found>>
    /\ UNCHANGED <<settings, attempts, prob, bot>>

\* SELECT code FROM codes into existing, then missing.
seed_select(b) ==
    /\ boot[b].pc = "s_select"
    /\ boot' = [boot EXCEPT ![b] = [pc |-> "s_insert", missing |-> Missing(DOMAIN table)]]
    /\ UNCHANGED <<table, durable, writer>>
    /\ UNCHANGED <<inTx, locked, pc, arg, row, result, returned, driver, found>>
    /\ UNCHANGED <<settings, attempts, prob, bot>>

\* executemany of the INSERT OR IGNORE over missing.
seed_insert(b) ==
    /\ boot[b].pc = "s_insert"
    /\ table' = InsertOrIgnore(table, boot[b].missing)
    /\ At(b, "s_commit")
    /\ UNCHANGED <<durable, writer>>
    /\ UNCHANGED <<inTx, locked, pc, arg, row, result, returned, driver, found>>
    /\ UNCHANGED <<settings, attempts, prob, bot>>

seed_commit(b) ==
    /\ boot[b].pc = "s_commit"
    /\ durable' = table
    /\ writer' = 0
    /\ boot' = [boot EXCEPT ![b] = [pc |-> "up", missing |-> {}]]
    /\ UNCHANGED table
    /\ UNCHANGED <<inTx, locked, pc, arg, row, result, returned, driver, found>>
    /\ UNCHANGED <<settings, attempts, prob, bot>>

_seed_codes(b) ==
    seed_count(b) \/ seed_begin(b) \/ seed_select(b) \/ seed_insert(b)
        \/ seed_commit(b)

\* Every connect has ended, by returning or by raising.
Settled == \A b \in Boots : boot[b].pc \in {"up", "failed"}

\* Any content of the codes table: any keys, any flags.
Tables == UNION {[S -> {0, 1}] : S \in SUBSET InputVals}

\* A medium with any content, opened by every process at once.
InitSeed ==
    /\ table \in Tables
    /\ durable = table
    /\ found = table
    /\ boot = [b \in Boots |-> [pc |-> "s_count", missing |-> {}]]
    /\ writer = 0
    /\ NoEstimate
    /\ NoBot
    /\ Quiet
    /\ script = [p \in Tasks |-> <<>>]
    /\ input = [p \in Tasks |-> <<>>]
    /\ log = <<>>
    /\ start = {}
    /\ scenario = ""

\* The processes connect; once that is over, codes are taken.
NextSeed ==
    \/ \E b \in Boots : _seed_codes(b)
    \/ \E p \in Tasks : Settled /\ CallTake(p) /\ UNCHANGED <<driver, shell>>
    \/ \E p \in Tasks : take_random_code(p)

SpecSeed == InitSeed /\ [][NextSeed]_vars

\* The process is started again while no call runs: main closes the
\* repository on its way out and create_repository connects anew.
Restart(b) ==
    /\ pc = [p \in Tasks |-> "idle"]
    /\ boot[b].pc = "up"
    /\ At(b, "s_count")
    /\ UNCHANGED <<table, durable, inTx, locked, pc, arg, row, result, returned,
                   driver, writer, found, settings, attempts, prob, bot>>

\* The service calls of Spec, with restarts in between; handlers are served
\* once connect has returned.
NextLife ==
    \/ \E p \in Tasks : Booted /\ Call(p)
    \/ \E p \in Tasks : Step(p)
    \/ \E b \in Boots : Restart(b)
    \/ \E b \in Boots : seed_count(b)

SpecLife == Init /\ [][NextLife]_vars

\* -------------------------------------------------------------- probability

\* math.comb(n, k) for n, k >= 0: 0 when k > n, else n! / (k! (n-k)!).
RECURSIVE comb(_, _)
comb(n, k) ==
    IF k > n THEN 0
    ELSE IF k = 0 THEN 1
    ELSE (comb(n - 1, k - 1) * n) \div k

\* Faulty variant: the forced hit tested with >=.
cumulative_success_prob_ge(total, success_count, draws) ==
    IF draws <= 0 \/ success_count <= 0 \/ total <= 0 THEN Zero
    ELSE LET d == Min({draws, total})
             s == Min({success_count, total})
         IN IF d >= total - s THEN One
            ELSE [num |-> comb(total, d) - comb(total - s, d), den |-> comb(total, d)]

\* Faulty variant: the probability of no hit, 1 - forgotten.
cumulative_success_prob_miss(total, success_count, draws) ==
    IF draws <= 0 \/ success_count <= 0 \/ total <= 0 THEN Zero
    ELSE LET d == Min({draws, total})
             s == Min({success_count, total})
         IN IF d > total - s THEN One
            ELSE [num |-> comb(total - s, d), den |-> comb(total, d)]

\* cumulative_success_prob: 1 - a / b is the fraction (b - a) / b.
cumulative_success_prob(total, success_count, draws) ==
    IF draws <= 0 \/ success_count <= 0 \/ total <= 0 THEN Zero
    ELSE LET d == Min({draws, total})
             s == Min({success_count, total})
         IN IF d > total - s THEN One
            ELSE [num |-> comb(total, d) - comb(total - s, d), den |-> comb(total, d)]

\* settings as handle_code may meet them: TOTAL_CODES and WINNING_CODES are any
\* integers of the environment.  attempts is negative when total_codes is
\* below the count remaining, and grows by one with every code taken.
Amounts == (0 - 1) .. MaxTotal

InitProb ==
    /\ settings \in [total_codes : Amounts, winning_codes : Amounts]
    /\ attempts = 0 - 1
    /\ prob = cumulative_success_prob(settings.total_codes, settings.winning_codes,
                                      attempts)
    /\ table = Seeded
    /\ durable = Seeded
    /\ found = Seeded
    /\ Booted
    /\ NoBot
    /\ Quiet
    /\ script = [p \in Tasks |-> <<>>]
    /\ input = [p \in Tasks |-> <<>>]
    /\ log = <<>>
    /\ start = {}
    /\ scenario = ""

\* The reply to the next code taken: one attempt more.
Estimate ==
    /\ attempts <= MaxTotal
    /\ attempts' = attempts + 1
    /\ prob' = cumulative_success_prob(settings.total_codes, settings.winning_codes,
                                       attempts')
    /\ UNCHANGED <<table, durable, inTx, locked, pc, arg, row, result, returned,
                   driver, boot, writer, found, settings, bot>>

SpecProb == InitProb /\ [][Estimate]_vars

\* ----------------------------------------------------------------------- bot

\* The dispatcher hands every update that a handler is registered for to
\* AccessMiddleware, and the handler runs as a coroutine of its own.  An
\* update is a message (a command or a keyboard button text) or the callback
\* of one of the two buttons under the prompt of handle_clear.  from_user is a
\* user id, or None (written 0) when the update names no sender.  Replies are
\* left out, except the document sent with the prompt.  script holds the
\* service calls the handler still has to make.  Of the handlers, those that
\* take, count, clear and open the prompt are here; handle_start (which serves
\* as handle_remaining does), handle_export (handle_clear without the prompt)
\* and the two import handlers are not.

None == 0
Messages == {"code", "clear", "remaining"}
Callbacks == {"confirm_clear", "cancel_clear"}

\* dp.message.register / dp.callback_query.register
Route(what) ==
    CASE what = "code" -> "handle_code"
      [] what = "clear" -> "handle_clear"
      [] what = "remaining" -> "handle_remaining"
      [] what = "confirm_clear" -> "confirm_clear"
      [] what = "cancel_clear" -> "cancel_clear"

\* The CodeService calls of each handler, in order.
Body(h) ==
    CASE h = "handle_code" -> <<"take", "remaining">>
      [] h = "handle_clear" -> <<"export">>
      [] h = "handle_remaining" -> <<"remaining">>
      [] h = "confirm_clear" -> <<"clear">>
      [] h = "cancel_clear" -> <<>>

\* f"{code:04d}" for a code of 0 .. 9999, as its four digits.
padded(code) ==
    <<(code \div 1000) % 10, (code \div 100) % 10, (code \div 10) % 10, code % 10>>

\* export_used_text: one padded line per code; the lines of the document.
export_used_text(codes) == [i \in 1 .. Len(codes) |-> padded(codes[i])]

\* Faulty variant: an empty allowed list lets every sender in.
PermittedIfListed(user_id) ==
    user_id # None /\ (allowed = {} \/ user_id \in allowed)

\* not (user_id is None or user_id not in self.allowed_ids)
Permitted(user_id) ==
    user_id # None /\ user_id \in allowed

\* The coroutines that serve no update.
Free == {q \in Tasks : pc[q] = "idle" /\ event[q] = NoEvent}

\* An update of sender u reaches AccessMiddleware.__call__ in a new coroutine
\* p (the first free one: coroutines have no identity of their own): the
\* handler is called, or "no access" is answered and None returned.  A
\* callback needs an open prompt.
Dispatch(p, what, u) ==
    /\ Free # {}
    /\ p = Min(Free)
    /\ updates < MaxUpdates
    /\ updates' = updates + 1
    /\ from_user' = u
    /\ what \in Callbacks => prompt # NoPrompt
    /\ IF Permitted(u)
       THEN /\ event' = [event EXCEPT ![p] =
                          [handler |-> Route(what), calls |-> 1,
                           document |-> IF what \in Callbacks THEN prompt[1] ELSE <<>>]]
            /\ script' = [script EXCEPT ![p] = Body(Route(what))]
       ELSE UNCHANGED <<event, script>>
    /\ UNCHANGED <<table, durable, inTx, locked, pc, arg, row, result, returned,
                   input, log, start, scenario, boot, writer, found,
                   settings, attempts, prob, allowed, prompt>>

\* The handler makes its next CodeService call.
HandlerCall(p) ==
    /\ event[p].handler # ""
    /\ script[p] # <<>>
    /\ \/ Head(script[p]) = "take" /\ CallTake(p)
       \/ Head(script[p]) = "remaining" /\ CallRemaining(p)
       \/ Head(script[p]) = "export" /\ CallExport(p)
       \/ Head(script[p]) = "clear" /\ CallClear(p)
    /\ UNCHANGED <<driver, shell>>

\* The call has returned.  handle_code stops when there is no code left;
\* handle_clear sends the export as a document with the two buttons;
\* confirm_clear takes the buttons off.  After its last call a handler only
\* answers.  An exception ends the handler.
HandlerReturn(p) ==
    /\ event[p].handler # ""
    /\ pc[p] = "done"
    /\ LET r == result[p]
           h == event[p].handler
           rest == IF r.status # "ok" \/ (h = "handle_code" /\ r.op = "take" /\ r.val = <<>>)
                   THEN <<>> ELSE Tail(script[p])
       IN /\ script' = [script EXCEPT ![p] = rest]
          /\ event' = [event EXCEPT ![p] = IF rest = <<>> THEN NoEvent ELSE @]
          /\ prompt' = IF r.status # "ok" THEN prompt
                        ELSE IF h = "handle_clear" THEN <<export_used_text(r.val)>>
                        ELSE IF h = "confirm_clear" THEN NoPrompt
                        ELSE prompt
    /\ pc' = [pc EXCEPT ![p] = "idle"]
    /\ result' = [result EXCEPT ![p] = NoResult]
    /\ UNCHANGED <<table, durable, inTx, locked, arg, row, returned,
                   input, log, start, scenario, boot, writer, found,
                   settings, attempts, prob, allowed, updates, from_user>>

\* cancel_clear makes no call: it answers and takes the buttons off.
cancel_clear(p) ==
    /\ event[p].handler = "cancel_clear"
    /\ event' = [event EXCEPT ![p] = NoEvent]
    /\ prompt' = NoPrompt
    /\ UNCHANGED <<table, durable, inTx, locked, pc, arg, row, result, returned,
                   driver, boot, writer, found, settings, attempts, prob, allowed,
                   updates, from_user>>

\* main once the repository is created on the store t: the middleware is set
\* up with the configured ids, any set of users, and polling starts.
main(t) ==
    /\ table = t
    /\ durable = t
    /\ found = t
    /\ Booted
    /\ NoEstimate
    /\ allowed \in SUBSET Users
    /\ event = [p \in Tasks |-> NoEvent]
    /\ prompt = NoPrompt
    /\ updates = 0
    /\ from_user = 0
    /\ Quiet
    /\ script = [p \in Tasks |-> <<>>]
    /\ input = [p \in Tasks |-> <<>>]
    /\ log = <<>>
    /\ start = {}
    /\ scenario = ""

NextBot ==
    \/ \E p \in Tasks, what \in Messages \cup Callbacks, u \in {None} \cup Users :
          Dispatch(p, what, u)
    \/ \E p \in Tasks : HandlerCall(p)
    \/ \E p \in Tasks : take_random_code(p)
    \/ \E p \in Tasks : clear_used(p)
    \/ \E p \in Tasks : get_unused_count(p)
    \/ \E p \in Tasks : export_used(p)
    \/ \E p \in Tasks : HandlerReturn(p)
    \/ \E p \in Tasks : cancel_clear(p)

\* The bot on a new store.
InitBot == main(Seeded)

SpecBot == InitBot /\ [][NextBot]_vars

\* The bot on a store that holds any used flags from earlier runs.
InitBotUsed == \E t \in [Codes -> {0, 1}] : main(t)

SpecBotUsed == InitBotUsed /\ [][NextBot]_vars


\* ------------------------------------------------------- scripted scenarios

\* Callers that make a fixed list of calls and keep every result.  A
\* sequential scenario is one caller awaiting each call before the next.
ImportTwice == <<"import", "reimport">>
RoundTrip == <<"import", "export", "clear", "export", "remaining">>
Exhaust == [i \in 1 .. (NumCodes + 1) |-> "take"] \o <<"remaining">>
\* Take a code, import that very code, clear; remaining asked in between.
TakeImportClear ==
    <<"remaining", "take", "remaining", "import_taken", "clear", "remaining">>

Only(s) == [p \in Tasks |-> IF p = 1 THEN s ELSE <<>>]
\* Every coroutine takes once; the first then asks what remains.
AllTake == [p \in Tasks |-> IF p = 1 THEN <<"take", "remaining">> ELSE <<"take">>]
\* An import, a clear and takes at the same time.
Mixed == [p \in Tasks |-> IF p = 1 THEN <<"import">>
                          ELSE IF p = 2 THEN <<"clear">> ELSE <<"take">>]

\* The first coroutine reads with r while the second writes with w; any
\* further coroutine reads with remaining.
Reads(r, w) == [p \in Tasks |-> IF p = 1 THEN <<r>>
                               ELSE IF p = 2 THEN <<w>> ELSE <<"remaining">>]

\* An opened repository whose store holds any used flags from earlier runs.
InitScript ==
    /\ table \in [Codes -> {0, 1}]
    /\ durable = table
    /\ found = table
    /\ Booted
    /\ NoEstimate
    /\ NoBot
    /\ Quiet
    /\ \E sc \in {<<"seq", Only(ImportTwice)>>, <<"seq", Only(RoundTrip)>>,
                  <<"seq", Only(Exhaust)>>, <<"seq", Only(TakeImportClear)>>,
                  <<"takes", AllTake>>,
                  <<"mixed", Mixed>>}
                 \cup {<<"reads", Reads(r, w)>> :
                          r \in {"export", "remaining"},
                          w \in {"take", "import", "clear"}} :
          scenario = sc[1] /\ script = sc[2]
    /\ input = [p \in Tasks |-> <<>>]
    /\ log = <<>>
    /\ start = Used(table)

\* The other callers have made all their calls and have their results.
OthersDone(p) == \A q \in Tasks \ {p} : script[q] = <<>>

\* What the call logged last but one returned (the take before a remaining):
\* the one-element list of its code, or the empty list when it returned None.
TakenLast == log[Len(log) - 1].val

\* Coroutine p starts the next call of its script.  A scripted remaining is
\* started once the other callers are done, unless the scenario is about reads
\* that run beside a writer; a reimport hands in the sequence
\* of the call logged last, an import_taken the code the take before it
\* returned.  A sequential scenario imports any sequence, a
\* concurrent one an export-like file.
ScriptCall(p) ==
    /\ pc[p] = "idle"
    /\ script[p] # <<>>
    /\ \/ Head(script[p]) = "take" /\ CallTake(p) /\ UNCHANGED input
       \/ /\ Head(script[p]) = "import"
          /\ \E X \in (IF scenario = "seq" THEN Inputs ELSE ExportLike) :
                CallImport(p, X) /\ input' = [input EXCEPT ![p] = X]
       \/ /\ Head(script[p]) = "reimport"
          /\ CallImport(p, log[Len(log)].input)
          /\ input' = [input EXCEPT ![p] = log[Len(log)].input]
       \/ /\ Head(script[p]) = "import_taken"
          /\ CallImport(p, TakenLast)
          /\ input' = [input EXCEPT ![p] = TakenLast]
       \/ Head(script[p]) = "clear" /\ CallClear(p) /\ UNCHANGED input
       \/ Head(script[p]) = "export" /\ CallExport(p) /\ UNCHANGED input
       \/ /\ Head(script[p]) = "remaining"
          /\ scenario # "reads" => OthersDone(p)
          /\ CallRemaining(p)
          /\ UNCHANGED input
    /\ UNCHANGED <<script, log, start, scenario, shell>>

\* The caller has the result: it is logged with the store as it is then.
ScriptReturn(p) ==
    /\ pc[p] = "done"
    /\ log' = Append(log, [task |-> p, op |-> result[p].op,
                            status |-> result[p].status, val |-> result[p].val,
                            input |-> input[p], after |-> Used(table)])
    /\ script' = [script EXCEPT ![p] = Tail(@)]
    /\ input' = [input EXCEPT ![p] = <<>>]
    /\ pc' = [pc EXCEPT ![p] = "idle"]
    /\ result' = [result EXCEPT ![p] = NoResult]
    /\ UNCHANGED <<table, durable, inTx, locked, arg, row, returned, start, scenario,
                   shell>>

NextScript == \E p \in Tasks : ScriptCall(p) \/ Step(p) \/ ScriptReturn(p)

SpecScript == InitScript /\ [][NextScript]_vars

\* The store before the i-th logged call of a sequential scenario.
Before(i) == IF i = 1 THEN start ELSE log[i - 1].after
\* The distinct values of X that are codes.
Valid(X) == {X[j] : j \in 1 .. Len(X)} \cap Codes

\* ------------------------------------------------------------------ claims

\* Inside `async with self._lock` of a mutating operation.
InCS(p) ==
    pc[p] \in {"t_begin", "t_update", "t_commit",
               "i_begin", "i_exec", "i_run", "i_commit",
               "c_update", "c_commit"}

\* C1 (Uniqueness): in every interleaving of calls, no code is returned by
\* take_random_code more than once between two clears.
C1_Uniqueness == \A c \in Codes : returned[c] <= 1

\* Two different codes have been returned by take and not been cleared since.
C1_Witness == Cardinality({c \in Codes : returned[c] = 1}) >= 2

\* C2 (Conservation): the slot codes are exactly 0 .. NumCodes-1, and the count
\* get_unused_count selects plus the length of the list export_used selects is
\* NumCodes, in every reachable state.
C2_Conservation ==
    /\ DOMAIN table = Codes
    /\ CountUnused(table) + Len(SelectUsed(table)) = NumCodes

\* A take has marked a slot while another slot is still unused.
C2_Witness ==
    /\ Unused(table) # {}
    /\ \E p \in Tasks : pc[p] = "t_commit" /\ row[p] # <<>>

\* C3 (Effect of one Take): the UPDATE of a take yields no row exactly when no
\* slot is unused, and then changes no slot; otherwise it yields the code of a
\* slot that was unused, sets exactly that slot to used and lowers the unused
\* count by one.  The commit changes no slot and returns that row; BEGIN raises
\* no error.
C3_TakeEffect ==
    [][\A p \in Tasks :
        /\ (pc[p] = "t_begin" /\ pc'[p] # "t_begin") => pc'[p] = "t_update"
        /\ (pc[p] = "t_update" /\ pc'[p] = "t_commit") =>
              /\ (row'[p] = <<>>) <=> (Unused(table) = {})
              /\ row'[p] = <<>> => table' = table
              /\ row'[p] # <<>> =>
                    /\ row'[p][1] \in Unused(table)
                    /\ table' = [table EXCEPT ![row'[p][1]] = 1]
                    /\ CountUnused(table') = CountUnused(table) - 1
        /\ (pc[p] = "t_commit" /\ pc'[p] # "t_commit") =>
              /\ table' = table
              /\ row[p] = <<>> => returned' = returned
              /\ row[p] # <<>> =>
                    returned' = [returned EXCEPT ![row[p][1]] = @ + 1]
      ]_vars

\* One take has returned a code and a later take has found no unused slot.
C3_Witness ==
    /\ \E c \in Codes : returned[c] = 1
    /\ \E p \in Tasks : pc[p] = "t_commit" /\ row[p] = <<>>

\* The first i logged calls are takes.
TakesUpTo(i) == \A j \in 1 .. i : log[j].op = "take"

\* C4 (Exhaustion): one caller taking again and again from a store with every
\* slot unused gets a code of the pool from each of the first NumCodes takes
\* and none from the next, without an error, and get_unused_count then
\* returns 0.
C4_Exhaustion ==
    (scenario = "seq" /\ start = {}) =>
        /\ \A i \in 1 .. Len(log) : TakesUpTo(i) =>
              /\ log[i].status = "ok"
              /\ i <= NumCodes => Len(log[i].val) = 1 /\ log[i].val[1] \in Codes
              /\ i > NumCodes => log[i].val = <<>>
        /\ (Len(log) = NumCodes + 2 /\ TakesUpTo(NumCodes + 1)
              /\ log[NumCodes + 2].op = "remaining") =>
              log[NumCodes + 2].val = <<0>>

\* NumCodes + 1 takes and the remaining call after them have returned.
C4_Witness ==
    /\ scenario = "seq" /\ start = {}
    /\ Len(log) = NumCodes + 2
    /\ TakesUpTo(NumCodes + 1)

\* C5 (Mutual exclusion and atomicity of writers): at most one coroutine is
\* inside the critical section of take_random_code, import_used or clear_used,
\* and while an executemany of an import has marked only part of its codes no
\* take is at its UPDATE.
C5_MutualExclusion ==
    /\ Cardinality({p \in Tasks : InCS(p)}) <= 1
    /\ \A p, q \in Tasks : pc[p] = "i_run" => pc[q] # "t_update"

\* An import is half applied while a take waits for the lock.
C5_Witness ==
    \E p, q \in Tasks : pc[p] = "i_run" /\ pc[q] = "t_lock"

\* The logged takes that returned a code, and k, the slots unused at the start.
Hits == {i \in 1 .. Len(log) : log[i].op = "take" /\ log[i].val # <<>>}
AtStart == NumCodes - Cardinality(start)
Least(a, b) == IF a <= b THEN a ELSE b

\* C6 (Total order of concurrent Takes): when every coroutine takes once at
\* the same time from a store with k unused slots, no take raises, as many
\* takes as there are slots to serve them (the smaller of k and the number of
\* takes) return a code, the codes are distinct and were unused, the other
\* takes return none, and a remaining started after all of them returns k
\* minus the number of codes returned.
C6_TakesSerialize ==
    (scenario = "takes") =>
        /\ \A i \in 1 .. Len(log) : log[i].status = "ok"
        /\ \A i \in Hits : log[i].val[1] \in Codes \ start
        /\ \A i, j \in Hits : i # j => log[i].val # log[j].val
        /\ Len(log) >= NumTasks =>
              Cardinality(Hits) = Least(AtStart, NumTasks)
        /\ Len(log) = NumTasks + 1 =>
              /\ log[NumTasks + 1].op = "remaining"
              /\ log[NumTasks + 1].val = <<AtStart - Cardinality(Hits)>>

\* All takes and the remaining have returned, with one slot unused at the
\* start: one take got the code, the others none.
C6_Witness ==
    /\ scenario = "takes"
    /\ Len(log) = NumTasks + 1
    /\ AtStart = 1
    /\ \E i \in 1 .. Len(log) : log[i].op = "take" /\ log[i].val = <<>>

\* C7 (Abandoned request leaves no partial state): whenever no coroutine is
\* inside a critical section, also after a take or an import was cancelled at
\* an await inside its transaction, the connection is in no open transaction
\* and no slot change is uncommitted (so the next BEGIN IMMEDIATE succeeds).
C7_NoPartialState ==
    ~locked => (~inTx /\ table = durable)

\* C8 (Import result): in a sequential scenario an import of any sequence X
\* raises no error, leaves used exactly the codes used before it and the
\* distinct values of X that are codes, and returns the number of those that
\* were unused before it.
C8_ImportResult ==
    (scenario = "seq") =>
        \A i \in 1 .. Len(log) : log[i].op = "import" =>
            /\ log[i].status = "ok"
            /\ log[i].after = Before(i) \cup Valid(log[i].input)
            /\ log[i].val = <<Cardinality(Valid(log[i].input) \ Before(i))>>

\* An import of a sequence with a repeated value, a value out of range, a
\* code used before and a code it newly marked has returned.
C8_Witness ==
    /\ scenario = "seq"
    /\ \E i \in 1 .. Len(log) :
        /\ log[i].op = "import"
        /\ \E j, k \in 1 .. Len(log[i].input) :
              j # k /\ log[i].input[j] = log[i].input[k]
        /\ \E j \in 1 .. Len(log[i].input) : log[i].input[j] \notin Codes
        /\ log[i].val = <<1>>
        /\ Before(i) # {}

\* C9 (Import idempotence): an import of X directly after an import of X
\* leaves the used set as the first left it and returns 0.
C9_ImportIdempotent ==
    (scenario = "seq") =>
        \A i \in 2 .. Len(log) :
            (log[i].op = "import" /\ log[i - 1].op = "import"
                /\ log[i].input = log[i - 1].input) =>
            /\ log[i].after = log[i - 1].after
            /\ log[i].val = <<0>>
            /\ log[i].status = "ok"

\* The first of two imports of the same sequence marked a code.
C9_Witness ==
    /\ scenario = "seq"
    /\ Len(log) = 2
    /\ log[1].op = "import" /\ log[2].op = "import"
    /\ log[1].input = log[2].input
    /\ log[1].val[1] >= 1

Ascending(q) == \A i \in 1 .. (Len(q) - 1) : q[i] < q[i + 1]
Elems(q) == {q[i] : i \in 1 .. Len(q)}

\* C10 (Import/Export/Clear round trip): on a store with no used slot, the
\* export after an import of X returns the distinct values of X that are codes
\* in strictly ascending order and changes no slot; after the clear that
\* follows, export returns the empty list and get_unused_count NumCodes.
C10_RoundTrip ==
    (scenario = "seq" /\ start = {} /\ Len(log) >= 2
        /\ log[1].op = "import" /\ log[2].op = "export") =>
        /\ log[2].status = "ok"
        /\ Ascending(log[2].val)
        /\ Elems(log[2].val) = Valid(log[1].input)
        /\ log[2].after = log[1].after
        /\ (Len(log) >= 4 /\ log[3].op = "clear" /\ log[4].op = "export") =>
              log[4].val = <<>> /\ log[4].after = {}
        /\ (Len(log) >= 5 /\ log[3].op = "clear" /\ log[5].op = "remaining") =>
              log[5].val = <<NumCodes>>

\* The whole round trip has run on an input that was not in order and held
\* a value out of range; the first export listed two codes or more.
C10_Witness ==
    /\ scenario = "seq" /\ start = {}
    /\ Len(log) = 5
    /\ log[1].op = "import" /\ log[2].op = "export"
    /\ Len(log[2].val) >= 2
    /\ log[1].input[1] > log[1].input[2]
    /\ \E j \in 1 .. Len(log[1].input) : log[1].input[j] \notin Codes

\* C11 (Clear result): in a sequential scenario a clear raises no error,
\* returns the number of slots that were used before it and leaves no slot
\* used; and on a store with every slot unused, take = C, import of <<C>>,
\* clear gives remaining NumCodes - 1 after the take, 0 from the import, 1
\* from the clear and remaining NumCodes at the end.
C11_ClearResult ==
    (scenario = "seq") =>
        /\ \A i \in 1 .. Len(log) : log[i].op = "clear" =>
              /\ log[i].status = "ok"
              /\ log[i].val = <<Cardinality(Before(i))>>
              /\ log[i].after = {}
        /\ (start = {} /\ Len(log) >= 2 /\ log[1].op = "remaining"
              /\ log[2].op = "take") =>
              /\ log[1].val = <<NumCodes>>
              /\ Len(log[2].val) = 1 /\ log[2].val[1] \in Codes
              /\ Len(log) >= 3 => log[3].val = <<NumCodes - 1>>
              /\ Len(log) >= 4 => log[4].input = log[2].val /\ log[4].val = <<0>>
              /\ Len(log) >= 5 => log[5].op = "clear" /\ log[5].val = <<1>>
              /\ Len(log) >= 6 => log[6].val = <<NumCodes>>

\* The take, import, clear sequence has run to its end on a fresh store.
C11_Witness ==
    /\ scenario = "seq" /\ start = {}
    /\ Len(log) = 6
    /\ log[2].op = "take" /\ log[4].op = "import" /\ log[5].op = "clear"
    /\ log[5].val = <<1>>

\* The complete table that bootstrap is to make of the table f it found.
Full(f) == [c \in Codes |-> IF c \in DOMAIN f THEN f[c] ELSE 0]

\* No service call has been started since the processes connected.
NoCallYet ==
    /\ pc = [p \in Tasks |-> "idle"]
    /\ returned = [c \in Codes |-> 0]

\* C12 (Idempotent bootstrap): when the table found on the medium holds only
\* keys of 0 .. NumCodes-1, with any flags, then at every moment of every
\* interleaving of the connecting processes each row found keeps its flag and
\* each row added is unused; as soon as one connect has returned the committed
\* table is complete, and it stays exactly that while the other connects run or
\* run again; when all have ended one at least has returned and nothing is
\* left uncommitted.
C12_IdempotentBootstrap ==
    (DOMAIN found \subseteq Codes /\ NoCallYet) =>
        /\ DOMAIN table \subseteq Codes
        /\ \A c \in DOMAIN table : table[c] = Full(found)[c]
        /\ \A b \in Boots : boot[b].pc = "up" => durable = Full(found)
        /\ Settled =>
              /\ \E b \in Boots : boot[b].pc = "up"
              /\ table = durable

\* One process has inserted the missing rows of a table that held one used
\* row and has not committed yet, while another waits to begin.
C12_Witness ==
    /\ \E c \in DOMAIN found : found[c] = 1
    /\ DOMAIN found \subseteq Codes /\ DOMAIN found # Codes
    /\ \E a, b \in Boots : boot[a].pc = "s_commit" /\ boot[b].pc = "s_begin"

\* C13 (Corrupt store is rejected): when the table found on the medium holds
\* a key outside 0 .. NumCodes-1, no connect returns normally, the table is
\* left as it was found, and no take fetches a code outside the range.
C13_CorruptRejected ==
    ~(DOMAIN found \subseteq Codes) =>
        /\ \A b \in Boots : boot[b].pc # "up"
        /\ table = found
        /\ \A p \in Tasks :
              (pc[p] = "t_commit" /\ row[p] # <<>>) => row[p][1] \in Codes

\* The entry of the scenario's one writer, and the used sets a read may
\* rest on: the one before the writer and the one after it.
WriterAt == CHOOSE i \in 1 .. Len(log) : log[i].task = 2
Snapshots == {start, log[WriterAt].after}

\* C14 (Consistent reads): when readers run beside one take, import or clear,
\* every remaining returns the unused count, and every export the ascending
\* list of the used codes, of the store as it was before the writer or as it
\* is after it.
C14_ConsistentReads ==
    (scenario = "reads" /\ Len(log) = NumTasks) =>
        \A i \in 1 .. Len(log) :
            /\ log[i].status = "ok"
            /\ log[i].op = "remaining" =>
                  \E S \in Snapshots : log[i].val = <<NumCodes - Cardinality(S)>>
            /\ log[i].op = "export" =>
                  \E S \in Snapshots : log[i].val = OrderByCode(S)

\* Fractions compared by cross multiplication (denominators are positive).
Same(x, y) == x.num * y.den = y.num * x.den
AtMost(x, y) == x.num * y.den <= y.num * x.den

\* The ways to draw d of the codes 1 .. t, and those that hit one of the
\* target codes 1 .. s.
DrawsOf(t, d) == {S \in SUBSET (1 .. t) : Cardinality(S) = d}
HitsOf(t, s, d) == {S \in DrawsOf(t, d) : S \cap (1 .. s) # {}}

\* C15 (Probability edge-case policy): for all total_codes, winning_codes and
\* attempts of the range, the result is 0 when one of them is not positive;
\* otherwise, with attempts and winning_codes clamped to total_codes, it is 1
\* when attempts exceeds total_codes - winning_codes, and else the share of
\* the draws that hit a target among all draws of that size (which is
\* 1 - C(total-target, draws) / C(total, draws)).  The three quoted cases give
\* 0, 1 and 1.
C15_EdgeCases ==
    LET t == settings.total_codes
        s == Least(settings.winning_codes, settings.total_codes)
        d == Least(attempts, settings.total_codes)
    IN /\ (attempts <= 0 \/ settings.winning_codes <= 0 \/ t <= 0) => prob = Zero
       /\ (attempts > 0 /\ settings.winning_codes > 0 /\ t > 0) =>
             /\ prob.den > 0
             /\ d > t - s => Same(prob, One)
             /\ d <= t - s =>
                   prob.num * Cardinality(DrawsOf(t, d))
                       = Cardinality(HitsOf(t, s, d)) * prob.den
       /\ cumulative_success_prob(10000, 88, 0) = Zero
       /\ cumulative_success_prob(10000, 88, 10000) = One
       /\ cumulative_success_prob(100, 100, 1) = One

\* After a further attempt the result is a proper fraction: two draws from a
\* pool of four with one target hit it in half of the cases.
C15_Witness ==
    /\ settings = [total_codes |-> MaxTotal, winning_codes |-> 1]
    /\ attempts = 2
    /\ prob.num > 0 /\ prob.num < prob.den

\* C16 (Probability range and monotonicity): for all total_codes,
\* winning_codes and attempts of the range, zero, negative and over-sized
\* ones included, the result lies in [0, 1], and the result for one attempt
\* more is never smaller.
C16_RangeMonotone ==
    [][/\ AtMost(Zero, prob) /\ AtMost(prob, One)
       /\ AtMost(Zero, prob') /\ AtMost(prob', One)
       /\ prob.den > 0 /\ prob'.den > 0
       /\ AtMost(prob, prob')]_vars

\* The result has risen from a proper fraction to 1 with the last attempt.
C16_Witness ==
    /\ settings.total_codes = 3 /\ settings.winning_codes = 1
    /\ attempts = 3
    /\ prob = One

\* C17 (Slot lifecycle): in every step of every interleaving of calls and
\* restarts, a flag turns from 0 to 1 only in the UPDATE of a take that
\* fetches that code or in the executemany of an import that still holds the
\* code; it turns from 1 to 0 only in the UPDATE of a clear; a take fetches
\* only a code whose flag was 0; remaining, export and connect change no flag
\* and no step adds or removes a row.
C17_SlotLifecycle ==
    [][/\ DOMAIN table' = DOMAIN table
       /\ \A c \in Codes :
            /\ (table[c] = 0 /\ table'[c] = 1) =>
                  \E p \in Tasks :
                      \/ pc[p] = "t_update" /\ row'[p] = <<c>>
                      \/ pc[p] \in {"i_exec", "i_run"} /\ c \in arg[p]
            /\ (table[c] = 1 /\ table'[c] = 0) =>
                  \E p \in Tasks : pc[p] = "c_update" /\ pc'[p] = "c_commit"
            /\ \A p \in Tasks :
                  (pc[p] = "t_update" /\ pc'[p] = "t_commit" /\ row'[p] = <<c>>)
                      => table[c] = 0
       /\ (\E p \in Tasks : pc[p] \in {"r_exec", "e_exec", "e_fetchall"}
                               /\ pc'[p] # pc[p]) => table' = table
       /\ boot' # boot => (table' = table /\ durable' = durable)
      ]_vars

\* A take has fetched a code while another code, marked by an import and
\* never returned by a take, is used.
C17_Witness ==
    \E c \in Codes :
        /\ table[c] = 1 /\ returned[c] = 0
        /\ \E p \in Tasks :
              pc[p] = "t_commit" /\ row[p] # <<>> /\ row[p] # <<c>>

\* C18 (Export before clear): in every interleaving of updates, each code
\* that the UPDATE of a confirm_clear resets is a line of the document that
\* was sent with the prompt whose button was pressed; the steps of
\* handle_clear and cancel_clear change no slot.  Prompts sent with an empty
\* document are left aside.
C18_ExportBeforeClear ==
    [][\A p \in Tasks :
          /\ (event[p].handler = "confirm_clear" /\ pc[p] = "c_update"
                /\ pc'[p] = "c_commit" /\ event[p].document # <<>>) =>
                \A c \in Used(table) : padded(c) \in Elems(event[p].document)
          /\ (event[p].handler \in {"handle_clear", "cancel_clear"}
                /\ (pc'[p] # pc[p] \/ event'[p] # event[p])) => table' = table
      ]_vars

====
